---- MODULE Spec2Model ----
(***************************************************************************)
(* Model of pubplot/axis.py: axis scales, their transforms, and the        *)
(* Locator / Formatter constructors.                                       *)
(*                                                                         *)
(* Numbers are exact rationals <<n, d>> with d >= 0 in lowest terms;       *)
(* <<1, 0>> is +inf and <<-1, 0>> is -inf, as produced by np.inf and by    *)
(* a floating division by zero.                                            *)
(***************************************************************************)
EXTENDS Integers, Sequences, FiniteSets, TLC

(***************************************************************************)
(* Bounds of the explored inputs.                                          *)
(***************************************************************************)
MaxCoord == 2
MaxScale == 2
MaxTrail == 2

(***************************************************************************)
(* Rational arithmetic (the float arithmetic of numpy, without rounding).  *)
(***************************************************************************)
Abs(i) == IF i < 0 THEN -i ELSE i

RECURSIVE Gcd(_, _)
Gcd(i, j) == IF j = 0 THEN i ELSE Gcd(j, i % j)

Sgn(i) == IF i < 0 THEN -1 ELSE IF i > 0 THEN 1 ELSE 0

Norm(n, d) ==
    IF d = 0 THEN <<Sgn(n), 0>>
    ELSE LET g == Gcd(Abs(n), Abs(d))
             s == IF d < 0 THEN -1 ELSE 1
         IN  <<(s * n) \div g, (s * d) \div g>>

Rat(n, d) == Norm(n, d)
RInt(i) == <<i, 1>>
Zero == <<0, 1>>
One == <<1, 1>>
Inf == <<1, 0>>
NegInf == <<-1, 0>>

IsFinite(p) == p[2] # 0

RAdd(p, q) ==
    IF p[2] = 0 THEN p
    ELSE IF q[2] = 0 THEN q
    ELSE LET g == Gcd(p[2], q[2])
         IN  Norm(p[1] * (q[2] \div g) + q[1] * (p[2] \div g), (p[2] \div g) * q[2])
RNeg(p) == <<-p[1], p[2]>>
RSub(p, q) == RAdd(p, RNeg(q))
RMul(p, q) == Norm(p[1] * q[1], p[2] * q[2])
\* p / q as numpy divides floats: x / inf = 0 and x / 0 = +-inf
RDiv(p, q) == Norm(p[1] * q[2] * (IF q[1] < 0 THEN -1 ELSE 1), p[2] * Abs(q[1]))
RLt(p, q) ==
    IF p[2] = 0 /\ q[2] = 0 THEN p[1] < q[1]
    ELSE IF p[2] = 0 \/ q[2] = 0 THEN p[1] * q[2] < q[1] * p[2]
    ELSE LET fp == p[1] \div p[2]
             fq == q[1] \div q[2]
         IN  IF fp # fq THEN fp < fq
             ELSE (p[1] % p[2]) * q[2] < (q[1] % q[2]) * p[2]
RLe(p, q) == p = q \/ RLt(p, q)
RGt(p, q) == RLt(q, p)
RAbs(p) == <<Abs(p[1]), p[2]>>

(***************************************************************************)
(* State.  registry is matplotlib's table of registered scale classes      *)
(* (mscale.register_scale); scaleobj, xf, a0, a and trail are what the     *)
(* host holds while it drives one scale: the scale instance, the current   *)
(* transform instance, the value first passed in, the current value, and   *)
(* the classes whose transform has been applied to it so far.  fmt is the  *)
(* formatter the host holds.  call is the last operation with its          *)
(* arguments, ret the value it returned and exc the exception it raised.   *)
(* arg is the array object the host last passed to a transform, as it is   *)
(* after the call.                                                         *)
(***************************************************************************)
VARIABLES registry, scaleobj, xf, a0, a, trail, arg, fmt, call, ret, exc

vars == <<registry, scaleobj, xf, a0, a, trail, arg, fmt, call, ret, exc>>

NoObject == [cls |-> "None"]
NoException == [type |-> "None", msg |-> ""]
NoCall == [op |-> "None"]
Unregistered == [cls |-> "Unregistered"]

\* the outcome of a call: the value returned or the exception raised
Return(obj) == [ret |-> obj, exc |-> NoException]
Raise(type, msg) == [ret |-> NoObject, exc |-> [type |-> type, msg |-> msg]]

\* scales (line 85) and the three register_scale calls of lines 403-405
scales == {"linear", "log", "symlog", "logit", "sine", "mercator", "inverse"}

BuiltinClass(name) ==
    CASE name = "linear" -> [cls |-> "LinearScale"]
      [] name = "log" -> [cls |-> "LogScale"]
      [] name = "symlog" -> [cls |-> "SymmetricalLogScale"]
      [] name = "logit" -> [cls |-> "LogitScale"]
      [] name = "sine" -> [cls |-> "SineLatitudeScale"]
      [] name = "mercator" -> [cls |-> "MercatorLatitudeScale"]
      [] name = "inverse" -> [cls |-> "InverseScale"]
      [] OTHER -> Unregistered

ScaleNames == scales \cup {"cutoff"}

ImportedRegistry == [n \in ScaleNames |-> BuiltinClass(n)]

(***************************************************************************)
(* Inputs.                                                                 *)
(***************************************************************************)
\* lower / upper of a cutoff scale
Bounds == {RInt(i) : i \in 0..MaxCoord}
\* the scale factor: 1/2 (decelerate), 1..MaxScale (accelerate), inf (cliff)
ScaleFactors == {Rat(1, 2), Inf} \cup {RInt(i) : i \in 1..MaxScale}
\* array elements handed to a transform: the halves in [-MaxCoord, MaxCoord + 2]
Halves == {Rat(k, 2) : k \in (-2 * MaxCoord)..(2 * MaxCoord + 4)}

(***************************************************************************)
(* CutoffScaleFactory.CutoffScale.CutoffTransform.transform, one element.  *)
(***************************************************************************)
\* variant: values above upper always move by the whole gap
CutoffTransform_transform_fullshift(lower, upper, scale, x) ==
    LET m3 == RGt(x, lower) /\ RLt(x, upper)
        k == RSub(One, RDiv(One, scale))
    IN  IF m3 THEN (IF scale = Inf THEN lower ELSE RSub(x, RMul(RSub(x, lower), k)))
        ELSE IF RGt(x, upper) THEN RSub(x, RSub(upper, lower))
        ELSE x

\* variant: the assignment aa[m3] = self.lower is lost
CutoffTransform_transform_nocollapse(lower, upper, scale, x) ==
    LET k == RSub(One, RDiv(One, scale))
    IN  IF RGt(x, lower) /\ RLt(x, upper)
        THEN (IF scale = Inf THEN RSub(x, RSub(upper, lower))
              ELSE RSub(x, RMul(RSub(x, lower), k)))
        ELSE IF RGt(x, upper) THEN RSub(x, RMul(RSub(upper, lower), k))
        ELSE x

CutoffTransform_transform(lower, upper, scale, x) ==
    LET m1 == RGt(x, lower)
        m2 == RGt(x, upper)
        m3 == RGt(x, lower) /\ RLt(x, upper)
        k == RSub(One, RDiv(One, scale))
    IN  IF scale = Inf
        THEN IF m3 THEN lower
             ELSE IF m1 THEN RSub(x, RSub(upper, lower))
             ELSE x
        ELSE IF m3 THEN RSub(x, RMul(RSub(x, lower), k))
             ELSE IF m2 THEN RSub(x, RMul(RSub(upper, lower), k))
             ELSE x

(***************************************************************************)
(* CutoffScaleFactory.CutoffScale.InvertedCutoffTransform.transform.       *)
(***************************************************************************)
InvertedCutoffTransform_transform(lower, upper, scale, x) ==
    LET k == RSub(One, RDiv(One, scale))
        n == RMul(RSub(upper, lower), k)
        m1 == RGt(x, lower)
        m2 == RGt(x, RSub(upper, n))
        m3 == RGt(x, lower) /\ RLt(x, RSub(upper, n))
    IN  IF scale = Inf
        THEN IF m1 THEN RAdd(x, RSub(upper, lower)) ELSE x
        ELSE IF m3 THEN RAdd(x, RMul(RSub(x, lower), k))
             ELSE IF m2 THEN RAdd(x, n)
             ELSE x

(***************************************************************************)
(* InverseScale.InverseTransform.transform and                             *)
(* InverseScale.InvertedInverseTransform.transform, with their default     *)
(* eps = 1e-2.  1.0 / 0.0 is +inf in numpy.                                *)
(***************************************************************************)
Eps == Rat(1, 100)

\* variant: the substitution aa[a<=0] = eps is lost
InverseTransform_transform_nosubst(x, eps) == RDiv(One, x)

InverseTransform_transform(x, eps) ==
    LET aa == IF RLe(x, Zero) THEN eps ELSE x
    IN  RDiv(One, aa)

\* variant: the substitution tests a < 0 and lets zero through
InvertedInverseTransform_transform_strict(x, eps) ==
    LET aa == IF RLt(x, Zero) THEN eps ELSE x
    IN  RDiv(One, aa)

InvertedInverseTransform_transform(x, eps) ==
    LET aa == IF RLe(x, Zero) THEN eps ELSE x
    IN  RDiv(One, aa)

(***************************************************************************)
(* MercatorLatitudeScale.MercatorLatitudeTransform.transform_non_affine.   *)
(* np.radians multiplies by pi / 180; pi is taken as 355/113.  The value   *)
(* ln|tan + sec| is kept as a term over the converted input; mask is the   *)
(* mask ma.masked_where gives the element.                                 *)
(***************************************************************************)
PiNum == 355
PiDen == 113
radians(deg) == RMul(deg, Rat(PiNum, 180 * PiDen))

MercatorLatitudeTransform_transform_non_affine(thresh, y) ==
    LET array == radians(y)
        mask == RLt(array, RNeg(thresh)) \/ RGt(array, thresh)
    IN  [mask |-> mask, v |-> <<"ln|tan+sec|", array>>]

\* a plain (unmasked) array element
Plain(x) == [mask |-> FALSE, v |-> x]
NoValue == [mask |-> FALSE, v |-> <<>>]

(***************************************************************************)
(* MercatorLatitudeScale.InvertedMercatorLatitudeTransform                 *)
(* .transform_non_affine: the value deg(atan(sinh(a))) is kept as a term.  *)
(***************************************************************************)
InvertedMercatorLatitudeTransform_transform_non_affine(x) ==
    Plain(<<"deg(atan(sinh))", x>>)

(***************************************************************************)
(* SineLatitudeScale.  np.deg2rad and np.rad2deg scale by pi / 180 and     *)
(* 180 / pi; np.sin and arcsin are exact at the multiples of 30 degrees    *)
(* the inputs are drawn from; elsewhere np.sin is kept as a term of three  *)
(* components.  ma.arcsin masks the elements outside its domain [-1, 1].   *)
(***************************************************************************)
deg2rad(x) == radians(x)
rad2deg(x) == RMul(x, Rat(180 * PiDen, PiNum))

np_sin(r) ==
    CASE r = deg2rad(RInt(-90)) -> RInt(-1)
      [] r = deg2rad(RInt(-30)) -> Rat(-1, 2)
      [] r = Zero -> Zero
      [] r = deg2rad(RInt(30)) -> Rat(1, 2)
      [] r = deg2rad(RInt(90)) -> One
      [] OTHER -> <<"sin", r[1], r[2]>>

ma_arcsin(x) ==
    IF RLt(x, RInt(-1)) \/ RGt(x, One) THEN [mask |-> TRUE, v |-> x]
    ELSE CASE x = RInt(-1) -> Plain(deg2rad(RInt(-90)))
           [] x = Rat(-1, 2) -> Plain(deg2rad(RInt(-30)))
           [] x = Zero -> Plain(Zero)
           [] x = Rat(1, 2) -> Plain(deg2rad(RInt(30)))
           [] x = One -> Plain(deg2rad(RInt(90)))

\* SineLatitudeTransform.transform_non_affine, one element
SineLatitudeTransform_transform_non_affine(x) ==
    LET m == RLe(RInt(-90), x) /\ RLe(x, RInt(90))
    IN  [mask |-> ~m, v |-> np_sin(deg2rad(x))]

\* variant: the upper clamp aa[a > 1] = 1 is lost
InvertedSineLatitudeTransform_transform_non_affine_noclamp(x) ==
    LET aa1 == IF RLt(x, RInt(-1)) THEN RInt(-1) ELSE x
        r == ma_arcsin(aa1)
    IN  [a |-> x, out |-> [mask |-> r.mask, v |-> rad2deg(r.v)]]

\* variant: aa is the input array itself, not a copy of it
InvertedSineLatitudeTransform_transform_non_affine_inplace(x) ==
    LET aa1 == IF RLt(x, RInt(-1)) THEN RInt(-1) ELSE x
        aa2 == IF RGt(x, One) THEN One ELSE aa1
        r == ma_arcsin(aa2)
    IN  [a |-> aa2, out |-> [mask |-> r.mask, v |-> rad2deg(r.v)]]

\* InvertedSineLatitudeTransform.transform_non_affine, one element: a is the
\* input array after the call, out the array returned
InvertedSineLatitudeTransform_transform_non_affine(x) ==
    LET aa0 == x
        aa1 == IF RLt(x, RInt(-1)) THEN RInt(-1) ELSE aa0
        aa2 == IF RGt(x, One) THEN One ELSE aa1
        r == ma_arcsin(aa2)
    IN  [a |-> x, out |-> [mask |-> r.mask, v |-> rad2deg(r.v)]]

(***************************************************************************)
(* Inputs of the scale constructors and of the transforms.                 *)
(***************************************************************************)
\* thresh of MercatorLatitudeScale, in degrees
Thresholds == {RInt(60), RInt(85), Rat(179, 2), RInt(90), RInt(95)}
\* latitudes in degrees handed to the sine transform
SineLatitudes == {RInt(d) : d \in {-100, -90, -30, 0, 30, 90, 100}}
\* classes whose result is kept as a term
TermClasses == {"MercatorLatitudeTransform", "InvertedMercatorLatitudeTransform"}
\* minpos of InverseScale
MinPositions == {Eps, One}
\* latitudes in degrees handed to the mercator transform
Latitudes == {RInt(d) : d \in {-5000, -100, -90, -86, -85, -60, 0, 60, 61, 85, 86,
                               89, 90, 100, 4000, 5000}}

InputsOf(t) ==
    IF t.cls = "MercatorLatitudeTransform" THEN Latitudes
    ELSE IF t.cls = "SineLatitudeTransform" THEN SineLatitudes
    ELSE Halves

(***************************************************************************)
(* Operations.                                                             *)
(***************************************************************************)
HostIdle == scaleobj = NoObject /\ xf = NoObject

\* variant: the class is registered under the name 'linear'
Register_linear(reg, name, cls) == [reg EXCEPT !["linear"] = cls]

\* mscale.register_scale(cls): binds cls.name to cls, replacing what was there
Register(reg, name, cls) == [reg EXCEPT ![name] = cls]

\* CutoffScaleFactory(l, u, scale, name='cutoff'): defines the class over
\* its arguments, registers it under the name and returns the name.
CutoffScaleFactory(l, u, scale) ==
    /\ HostIdle
    /\ registry' = Register(registry, "cutoff",
                            [cls |-> "CutoffScale", l |-> l, u |-> u, scale |-> scale])
    /\ call' = [op |-> "CutoffScaleFactory", l |-> l, u |-> u, scale |-> scale]
    /\ exc' = NoException
    /\ UNCHANGED <<scaleobj, xf, a0, a, trail>>
    /\ UNCHANGED <<fmt, ret, arg>>

\* CutoffScale.__init__, through the registered class
CutoffScale_init ==
    /\ HostIdle
    /\ registry["cutoff"].cls = "CutoffScale"
    /\ scaleobj' = registry["cutoff"]
    /\ call' = [op |-> "CutoffScale.__init__"]
    /\ exc' = NoException
    /\ UNCHANGED <<registry, xf, a0, a, trail>>
    /\ UNCHANGED <<fmt, ret, arg>>

\* variant: the test is thresh > 90.0
MercatorLatitudeScale_init_gt(thresh) ==
    /\ HostIdle
    /\ call' = [op |-> "MercatorLatitudeScale.__init__", thresh |-> thresh]
    /\ IF RLt(RInt(90), thresh)
       THEN /\ exc' = [type |-> "ValueError",
                       msg |-> "Threshold \"thresh\" must be <=90."]
            /\ scaleobj' = NoObject
       ELSE /\ exc' = NoException
            /\ scaleobj' = [cls |-> "MercatorLatitudeScale", thresh |-> thresh]
    /\ UNCHANGED <<registry, xf, a0, a, trail>>
    /\ UNCHANGED <<fmt, ret, arg>>

\* MercatorLatitudeScale.__init__(axis, thresh=...)
MercatorLatitudeScale_init(thresh) ==
    /\ HostIdle
    /\ call' = [op |-> "MercatorLatitudeScale.__init__", thresh |-> thresh]
    /\ IF RLe(RInt(90), thresh)
       THEN /\ exc' = [type |-> "ValueError",
                       msg |-> "Threshold \"thresh\" must be <=90."]
            /\ scaleobj' = NoObject
       ELSE /\ exc' = NoException
            /\ scaleobj' = [cls |-> "MercatorLatitudeScale", thresh |-> thresh]
    /\ UNCHANGED <<registry, xf, a0, a, trail>>
    /\ UNCHANGED <<fmt, ret, arg>>

\* InverseScale.__init__(axis, minpos=1e-2)
InverseScale_init(minpos) ==
    /\ HostIdle
    /\ scaleobj' = [cls |-> "InverseScale", minpos |-> minpos]
    /\ call' = [op |-> "InverseScale.__init__", minpos |-> minpos]
    /\ exc' = NoException
    /\ UNCHANGED <<registry, xf, a0, a, trail>>
    /\ UNCHANGED <<fmt, ret, arg>>

\* SineLatitudeScale.__init__(axis)
SineLatitudeScale_init ==
    /\ HostIdle
    /\ scaleobj' = [cls |-> "SineLatitudeScale"]
    /\ call' = [op |-> "SineLatitudeScale.__init__"]
    /\ exc' = NoException
    /\ UNCHANGED <<registry, xf, a0, a, trail>>
    /\ UNCHANGED <<fmt, ret, arg>>

\* Python's max and min of two floats
max(x, y) == IF RGt(y, x) THEN y ELSE x
min(x, y) == IF RLt(y, x) THEN y ELSE x

\* limit_range_for_scale(vmin, vmax, minpos) of the mercator, sine and
\* inverse scales: the pair returned
LimitRange(sc, vmin, vmax) ==
    CASE sc.cls = "MercatorLatitudeScale" ->
            <<max(vmin, RNeg(sc.thresh)), min(vmax, sc.thresh)>>
      [] sc.cls = "SineLatitudeScale" ->
            <<max(vmin, RInt(-90)), min(vmax, RInt(90))>>
      [] sc.cls = "InverseScale" -> <<vmin, vmax>>

\* axis limits the host asks about, in degrees
Limits == {RInt(d) : d \in {-120, -100, -60, 0, 60, 100, 120}}

\* the host asks the scale it holds for the limits of a range vmin <= vmax
limit_range_for_scale(vmin, vmax) ==
    /\ scaleobj # NoObject
    /\ scaleobj.cls \in {"MercatorLatitudeScale", "SineLatitudeScale", "InverseScale"}
    /\ xf = NoObject
    /\ RLe(vmin, vmax)
    /\ ret' = [type |-> "tuple", items |-> LimitRange(scaleobj, vmin, vmax)]
    /\ call' = [op |-> "limit_range_for_scale", vmin |-> vmin, vmax |-> vmax]
    /\ exc' = NoException
    /\ UNCHANGED <<registry, scaleobj, xf, a0, a, trail>>
    /\ UNCHANGED <<fmt, arg>>

\* get_transform of the four scales
get_transform ==
    /\ scaleobj # NoObject
    /\ xf = NoObject
    /\ ret = NoObject
    /\ xf' = CASE scaleobj.cls = "CutoffScale" ->
                    [cls |-> "CutoffTransform", lower |-> scaleobj.l,
                     upper |-> scaleobj.u, scale |-> scaleobj.scale]
               [] scaleobj.cls = "MercatorLatitudeScale" ->
                    [cls |-> "MercatorLatitudeTransform", thresh |-> scaleobj.thresh]
               [] scaleobj.cls = "InverseScale" ->
                    [cls |-> "InverseTransform", minpos |-> scaleobj.minpos]
               [] scaleobj.cls = "SineLatitudeScale" ->
                    [cls |-> "SineLatitudeTransform"]
    /\ call' = [op |-> "get_transform"]
    /\ exc' = NoException
    /\ UNCHANGED <<registry, scaleobj, a0, a, trail>>
    /\ UNCHANGED <<fmt, ret, arg>>

\* the attributes of the class MercatorLatitudeScale that inverted() reads
MercatorLatitudeScale_attrs ==
    {"name", "MercatorLatitudeTransform", "InvertedMercatorLatitudeTransform"}

\* T.inverted(): the transform it returns, or the exception it raises
InvertedResult(t) ==
    CASE t.cls = "CutoffTransform" ->
            Return([t EXCEPT !.cls = "InvertedCutoffTransform"])
      [] t.cls = "InvertedCutoffTransform" ->
            Return([t EXCEPT !.cls = "CutoffTransform"])
      [] t.cls = "InverseTransform" ->
            Return([cls |-> "InvertedInverseTransform", minpos |-> t.minpos])
      [] t.cls = "InvertedInverseTransform" ->
            Return([cls |-> "InverseTransform", minpos |-> t.minpos])
      [] t.cls = "MercatorLatitudeTransform" ->
            Return([cls |-> "InvertedMercatorLatitudeTransform", thresh |-> t.thresh])
      [] t.cls = "InvertedMercatorLatitudeTransform" ->
            Return([cls |-> "MercatorLatitudeTransform", thresh |-> t.thresh])
      [] t.cls = "SineLatitudeTransform" ->
            Return([cls |-> "InvertedSineLatitudeTransform"])
      [] t.cls = "InvertedSineLatitudeTransform" ->
            IF "SineLatitudeTransform" \in MercatorLatitudeScale_attrs
            THEN Return([cls |-> "SineLatitudeTransform"])
            ELSE Raise("AttributeError",
                       "type object 'MercatorLatitudeScale' has no attribute 'SineLatitudeTransform'")

\* inverted() of the current transform; the host keeps what it returns
inverted ==
    /\ xf # NoObject
    /\ LET r == InvertedResult(xf)
       IN  /\ exc' = r.exc
           /\ xf' = IF r.exc = NoException THEN r.ret ELSE xf
    /\ call' = [op |-> "inverted", self |-> xf]
    /\ UNCHANGED <<registry, scaleobj, a0, a, trail>>
    /\ UNCHANGED <<fmt, ret, arg>>

\* the host picks the value it is about to transform
SetInput(x) ==
    /\ xf # NoObject
    /\ a0 = NoValue
    /\ a0' = Plain(x)
    /\ a' = Plain(x)
    /\ call' = NoCall
    /\ exc' = NoException
    /\ UNCHANGED <<registry, scaleobj, xf, trail>>
    /\ UNCHANGED <<fmt, ret, arg>>

Apply(t, x) ==
    CASE t.cls = "CutoffTransform" ->
            Plain(CutoffTransform_transform(t.lower, t.upper, t.scale, x))
      [] t.cls = "InvertedCutoffTransform" ->
            Plain(InvertedCutoffTransform_transform(t.lower, t.upper, t.scale, x))
      [] t.cls = "InverseTransform" -> Plain(InverseTransform_transform(x, Eps))
      [] t.cls = "InvertedInverseTransform" ->
            Plain(InvertedInverseTransform_transform(x, Eps))
      [] t.cls = "MercatorLatitudeTransform" ->
            MercatorLatitudeTransform_transform_non_affine(t.thresh, x)
      [] t.cls = "InvertedMercatorLatitudeTransform" ->
            InvertedMercatorLatitudeTransform_transform_non_affine(x)
      [] t.cls = "SineLatitudeTransform" ->
            SineLatitudeTransform_transform_non_affine(x)
      [] t.cls = "InvertedSineLatitudeTransform" ->
            InvertedSineLatitudeTransform_transform_non_affine(x).out

\* the array passed to the transform as it is after the call: every
\* transform works on np.array(a), a.copy(), np.radians(array) or a masked
\* copy (ma.masked_where copies by default), never on its argument
ArgAfter(t, x) ==
    IF t.cls = "InvertedSineLatitudeTransform"
    THEN Plain(InvertedSineLatitudeTransform_transform_non_affine(x).a)
    ELSE Plain(x)

\* transform / transform_non_affine of the current transform on the current value
transform ==
    /\ xf # NoObject
    /\ a0 # NoValue
    /\ Len(trail) < MaxTrail
    /\ ~a.mask
    /\ \A i \in DOMAIN trail : trail[i] \notin TermClasses
    /\ Len(a.v) = 2
    /\ a' = Apply(xf, a.v)
    /\ arg' = ArgAfter(xf, a.v)
    /\ trail' = Append(trail, xf.cls)
    /\ call' = [op |-> "transform", self |-> xf, a |-> a]
    /\ exc' = NoException
    /\ UNCHANGED <<registry, scaleobj, xf, a0>>
    /\ UNCHANGED <<fmt, ret>>

\* the host drops the scale, the transform and the value it holds
Release ==
    /\ ~HostIdle
    /\ scaleobj' = NoObject
    /\ xf' = NoObject
    /\ a0' = NoValue
    /\ a' = NoValue
    /\ trail' = <<>>
    /\ arg' = NoValue
    /\ ret' = NoObject
    /\ call' = NoCall
    /\ exc' = NoException
    /\ UNCHANGED <<registry, fmt>>

Init ==
    /\ registry = ImportedRegistry
    /\ scaleobj = NoObject
    /\ xf = NoObject
    /\ a0 = NoValue
    /\ a = NoValue
    /\ trail = <<>>
    /\ arg = NoValue
    /\ fmt = NoObject
    /\ call = NoCall
    /\ ret = NoObject
    /\ exc = NoException

Next ==
    \/ \E l \in Bounds, u \in Bounds, s \in ScaleFactors : CutoffScaleFactory(l, u, s)
    \/ CutoffScale_init
    \/ \E t \in Thresholds : MercatorLatitudeScale_init(t)
    \/ \E m \in MinPositions : InverseScale_init(m)
    \/ SineLatitudeScale_init
    \/ \E vmin \in Limits, vmax \in Limits : limit_range_for_scale(vmin, vmax)
    \/ get_transform
    \/ inverted
    \/ \E x \in InputsOf(xf) : SetInput(x)
    \/ transform
    \/ Release

Spec == Init /\ [][Next]_vars

(***************************************************************************)
(* Tick locators and formatters.                                           *)
(*                                                                         *)
(* Python values are tagged records: [type |-> "None"], [type |-> "str",   *)
(* s |-> ...], [type |-> "scalar", x |-> ...], [type |-> "list", items |-> *)
(* ...], [type |-> "function", ...], and instances of mticker.Locator /    *)
(* mticker.Formatter ([type |-> "Locator", ...]).  An object built by a    *)
(* call cls applied to args and kwargs is the record of that call.         *)
(***************************************************************************)
MaxPrecision == 2

Contains(s, sub) ==
    \E i \in 1..(Len(s) - Len(sub) + 1) : SubSeq(s, i, i + Len(sub) - 1) = sub

RECURSIVE Join(_, _)
Join(sep, seq) ==
    IF seq = <<>> THEN ""
    ELSE IF Len(seq) = 1 THEN seq[1]
    ELSE seq[1] \o sep \o Join(sep, Tail(seq))

\* a dict literal is the sequence of its key: value items; a repeated key
\* keeps its first position and takes its last value
RECURSIVE DictKeys(_)
DictKeys(items) ==
    IF items = <<>> THEN <<>>
    ELSE LET n == Len(items)
             init == DictKeys(SubSeq(items, 1, n - 1))
             k == items[n][1]
         IN  IF \E i \in 1..Len(init) : init[i] = k THEN init ELSE Append(init, k)

DictHas(items, k) == \E i \in DOMAIN items : items[i][1] = k

DictGet(items, k) ==
    LET last == CHOOSE i \in DOMAIN items :
                    /\ items[i][1] = k
                    /\ \A j \in DOMAIN items : items[j][1] = k => j <= i
    IN  items[last][2]

NoKw == [k \in {} |-> 0]
New(cls, args, kwargs) == [type |-> "object", cls |-> cls, args |-> args, kwargs |-> kwargs]

\* the names matplotlib.ticker and matplotlib.dates define, among those the
\* module refers to
mticker ==
    {"Locator", "Formatter", "AutoLocator", "AutoMinorLocator", "MultipleLocator",
     "FixedLocator", "NullLocator", "LogLocator", "MaxNLocator", "LinearLocator",
     "IndexLocator", "SymmetricalLogLocator", "LogitLocator", "FuncFormatter",
     "StrMethodFormatter", "FormatStrFormatter", "IndexFormatter", "NullFormatter",
     "ScalarFormatter", "LogFormatter", "LogFormatterSciNotation",
     "LogFormatterMathtext", "LogitFormatter", "EngFormatter", "PercentFormatter"}

mdates ==
    {"AutoDateLocator", "AutoDateFormatter", "DateFormatter", "MicrosecondLocator",
     "SecondLocator", "MinuteLocator", "HourLocator", "DayLocator", "WeekdayLocator",
     "MonthLocator", "YearLocator"}

\* module.name applied to args and kwargs
CallAttr(module, name, args, kwargs) ==
    IF name \in module THEN Return(New(name, args, kwargs))
    ELSE Raise("AttributeError", name)

locators ==
    << <<"none", "NullLocator">>,
       <<"null", "NullLocator">>,
       <<"log", "LogLocator">>,
       <<"maxn", "MaxNLocator">>,
       <<"linear", "LinearLocator">>,
       <<"log", "LogLocator">>,
       <<"multiple", "MultipleLocator">>,
       <<"fixed", "FixedLocator">>,
       <<"index", "IndexLocator">>,
       <<"symmetric", "SymmetricalLogLocator">>,
       <<"logit", "LogitLocator">>,
       <<"minor", "AutoMinorLocator">>,
       <<"microsecond", "MicrosecondLocator">>,
       <<"second", "SecondLocator">>,
       <<"minute", "MinuteLocator">>,
       <<"hour", "HourLocator">>,
       <<"day", "DayLocator">>,
       <<"weekday", "WeekdayLocator">>,
       <<"month", "MonthLocator">>,
       <<"year", "YearLocator">> >>

formatters ==
    << <<"none", "NullFormatter">>,
       <<"null", "NullFormatter">>,
       <<"strmethod", "StrMethodFormatter">>,
       <<"formatstr", "FormatStrFormatter">>,
       <<"scalar", "ScalarFormatter">>,
       <<"log", "LogFormatterSciNotation">>,
       <<"eng", "LogFormatterMathtext">>,
       <<"sci", "LogFormatterSciNotation">>,
       <<"logit", "LogitFormatter">>,
       <<"eng", "EngFormatter">>,
       <<"percent", "PercentFormatter">>,
       <<"$", "MoneyFormatter">>,
       <<"pi", "PiFormatter">>,
       <<"e", "eFormatter">>,
       <<"deg", "CoordinateFormatter">>,
       <<"lat", "LatFormatter">>,
       <<"lon", "LonFormatter">>,
       <<"deglat", "LatFormatter">>,
       <<"deglon", "LonFormatter">> >>

\* utils.isscalar
isscalar(v) == v.type \in {"scalar", "str"}

np_sort(items) == SortSeq(items, RLt)

\* the decimal digits of a natural number
Digit(d) == SubSeq("0123456789", d + 1, d + 1)

RECURSIVE IntStr(_)
IntStr(n) == IF n < 10 THEN Digit(n) ELSE IntStr(n \div 10) \o Digit(n % 10)

\* the place of a character among the digits and lower-case letters, which
\* keeps the order of their code points
Ord(ch) ==
    LET alphabet == "0123456789abcdefghijklmnopqrstuvwxyz"
    IN  CHOOSE i \in 1..Len(alphabet) : SubSeq(alphabet, i, i) = ch

\* s < t for two strings, as numpy orders a unicode array
RECURSIVE StrLt(_, _)
StrLt(s, t) ==
    IF Len(t) = 0 THEN FALSE
    ELSE IF Len(s) = 0 THEN TRUE
    ELSE IF SubSeq(s, 1, 1) # SubSeq(t, 1, 1)
    THEN Ord(SubSeq(s, 1, 1)) < Ord(SubSeq(t, 1, 1))
    ELSE StrLt(SubSeq(s, 2, Len(s)), SubSeq(t, 2, Len(t)))

\* np.sort(locator) for a list of numbers, and for a tuple that holds a
\* string: np.array turns every element of it into a string (an integer n
\* into its decimal digits) and the strings are sorted
np_sort_sequence(v) ==
    IF v.type = "tuple"
    THEN SortSeq([i \in DOMAIN v.items |->
                    IF v.items[i].type = "str" THEN v.items[i].s
                    ELSE (IF v.items[i].x[1] < 0 THEN "-" ELSE "")
                            \o IntStr(Abs(v.items[i].x[1]))],
                 StrLt)
    ELSE np_sort(v.items)
np_arange(lo, hi) == [i \in 1..(hi - lo) |-> lo + i - 1]

UnknownMessage(what, name, table) ==
    "Unknown " \o what \o " \"" \o name \o "\". Options are "
        \o Join(", ", DictKeys(table)) \o "."

\* variant: the membership test is lost and the lookup raises KeyError
LocatorResult_nocheck(locator, args, minor, time, kwargs) ==
    IF locator.type = "Locator" THEN Return(locator)
    ELSE IF locator.type = "None"
    THEN IF time THEN CallAttr(mticker, "AutoDateLocator", args, kwargs)
         ELSE IF minor THEN CallAttr(mticker, "AutoMinorLocator", args, kwargs)
         ELSE CallAttr(mticker, "AutoLocator", args, kwargs)
    ELSE IF locator.type = "str"
    THEN IF locator.s = "logminor"
         THEN Return(New(DictGet(locators, "log"), args,
                         ("subs" :> np_arange(0, 10)) @@ kwargs))
         ELSE IF ~DictHas(locators, locator.s)
         THEN Raise("KeyError", locator.s)
         ELSE Return(New(DictGet(locators, locator.s), args, kwargs))
    ELSE IF isscalar(locator)
    THEN CallAttr(mticker, "MultipleLocator", <<locator.x>> \o args, kwargs)
    ELSE CallAttr(mticker, "FixedLocator", <<np_sort_sequence(locator)>> \o args, kwargs)

\* Locator(locator, args..., minor=False, time=False, kwargs...)
LocatorResult(locator, args, minor, time, kwargs) ==
    IF locator.type = "Locator" THEN Return(locator)
    ELSE IF locator.type = "None"
    THEN IF time THEN CallAttr(mticker, "AutoDateLocator", args, kwargs)
         ELSE IF minor THEN CallAttr(mticker, "AutoMinorLocator", args, kwargs)
         ELSE CallAttr(mticker, "AutoLocator", args, kwargs)
    ELSE IF locator.type = "str"
    THEN IF locator.s = "logminor"
         THEN Return(New(DictGet(locators, "log"), args,
                         ("subs" :> np_arange(0, 10)) @@ kwargs))
         ELSE IF ~DictHas(locators, locator.s)
         THEN Raise("ValueError", UnknownMessage("locator", locator.s, locators))
         ELSE Return(New(DictGet(locators, locator.s), args, kwargs))
    ELSE IF isscalar(locator)
    THEN CallAttr(mticker, "MultipleLocator", <<locator.x>> \o args, kwargs)
    ELSE CallAttr(mticker, "FixedLocator", <<np_sort_sequence(locator)>> \o args, kwargs)

(***************************************************************************)
(* CustomFormatter and the function f it wraps.  A float is its sign bit   *)
(* and its magnitude, so that -0.0 differs from 0.0.                       *)
(***************************************************************************)
Float(neg, mag) == [neg |-> neg, mag |-> mag]
Signed(value) == IF value.neg THEN RNeg(value.mag) ELSE value.mag

\* the character that replaces the ASCII hyphen: U+2212 MINUS SIGN
UnicodeMinus == "<U+2212>"

RECURSIVE ZeroPad(_, _)
ZeroPad(str, width) == IF Len(str) >= width THEN str ELSE ZeroPad("0" \o str, width)

\* round-half-even of the non-negative rational mag * 10^p to an integer
RoundScaled(mag, p) ==
    LET q == mag[1] * (10 ^ p)
        fl == q \div mag[2]
        r == q % mag[2]
    IN  IF 2 * r > mag[2] THEN fl + 1
        ELSE IF 2 * r < mag[2] THEN fl
        ELSE IF fl % 2 = 0 THEN fl ELSE fl + 1

\* '{0:.pf}'.format(value)
FormatFixed(value, p) ==
    LET m == RoundScaled(value.mag, p)
        ip == m \div (10 ^ p)
        fp == m % (10 ^ p)
    IN  (IF value.neg THEN "-" ELSE "") \o IntStr(ip)
            \o (IF p > 0 THEN "." \o ZeroPad(IntStr(fp), p) ELSE "")

\* variant: nothing is stripped
rstrip_none(str, ch) == str

RECURSIVE rstrip(_, _)
rstrip(str, ch) ==
    IF Len(str) > 0 /\ SubSeq(str, Len(str), Len(str)) = ch
    THEN rstrip(SubSeq(str, 1, Len(str) - 1), ch)
    ELSE str

\* variant: the string is returned as it is
re_sub_keep(ch, repl, str) == str

RECURSIVE re_sub(_, _, _)
re_sub(ch, repl, str) ==
    IF Len(str) = 0 THEN ""
    ELSE (IF SubSeq(str, 1, 1) = ch THEN repl ELSE SubSeq(str, 1, 1))
            \o re_sub(ch, repl, SubSeq(str, 2, Len(str)))

Str(x) == [type |-> "str", s |-> x]
DefaultTickrange == [type |-> "list", items |-> <<NegInf, Inf>>]

\* variant: a scalar t gives [-|t|, |t|]
NormalTickrange_abs(tickrange) ==
    IF tickrange.type = "None" THEN <<NegInf, Inf>>
    ELSE IF tickrange.type = "scalar"
    THEN <<RNeg(RAbs(tickrange.x)), RAbs(tickrange.x)>>
    ELSE tickrange.items

\* lines 518-521: the [min, max] pair the closure keeps
NormalTickrange(tickrange) ==
    IF tickrange.type = "None" THEN <<NegInf, Inf>>
    ELSE IF isscalar(tickrange) THEN <<RNeg(tickrange.x), tickrange.x>>
    ELSE tickrange.items

FuncFormatter(f) == [type |-> "Formatter", cls |-> "FuncFormatter", f |-> f]

\* CustomFormatter(precision=2, tickrange=[-np.inf, np.inf])
CustomFormatter(precision, tickrange) ==
    FuncFormatter([fn |-> "CustomFormatter.f", precision |-> precision,
                   tickrange |-> NormalTickrange(tickrange)])

\* variant: the special case string == '-0' is lost
CustomFormatter_f_keepsign(precision, tickrange, value) ==
    LET eps == RDiv(value.mag, RInt(1000))
        x == Signed(value)
    IN  IF RLt(RAdd(x, eps), tickrange[1]) \/ RGt(RSub(x, eps), tickrange[2])
        THEN Return(Str(""))
        ELSE IF precision[2] # 1 \/ precision[1] < 0
        THEN Raise("ValueError", "format")
        ELSE LET s0 == FormatFixed(value, precision[1])
                 s1 == IF Contains(s0, ".") THEN rstrip(rstrip(s0, "0"), ".") ELSE s0
             IN  IF RGt(x, Zero) /\ s1 = "0"
                 THEN Raise("RuntimeError",
                            "Tried to round tick position label to zero. Add precision or use an exponential formatter.")
                 ELSE Return(Str(re_sub("-", UnicodeMinus, s1)))

\* f(value, location) of CustomFormatter, lines 522-544
CustomFormatter_f(precision, tickrange, value) ==
    LET eps == RDiv(value.mag, RInt(1000))
        x == Signed(value)
    IN  IF RLt(RAdd(x, eps), tickrange[1]) \/ RGt(RSub(x, eps), tickrange[2])
        THEN Return(Str(""))
        ELSE IF precision[2] # 1 \/ precision[1] < 0
        THEN Raise("ValueError", "format")
        ELSE LET s0 == FormatFixed(value, precision[1])
                 s1 == IF Contains(s0, ".") THEN rstrip(rstrip(s0, "0"), ".") ELSE s0
                 s2 == IF s1 = "-0" THEN "0" ELSE s1
             IN  IF RGt(x, Zero) /\ s2 = "0"
                 THEN Raise("RuntimeError",
                            "Tried to round tick position label to zero. Add precision or use an exponential formatter.")
                 ELSE Return(Str(re_sub("-", UnicodeMinus, s2)))

(***************************************************************************)
(* The formatter constructors.  Each takes the positional and keyword      *)
(* arguments of the call and binds them as Python does; a keyword given    *)
(* twice, or one the signature does not have, is a TypeError.              *)
(***************************************************************************)
Without(kwargs, keys) == [k \in (DOMAIN kwargs) \ keys |-> kwargs[k]]
Get(kwargs, key, default) == IF key \in DOMAIN kwargs THEN kwargs[key] ELSE default

\* CustomFormatter applied to args and kwargs
CustomFormatter_call(args, kwargs) ==
    IF \/ Len(args) > 2
       \/ (DOMAIN kwargs) \ {"precision", "tickrange"} # {}
       \/ Len(args) >= 1 /\ "precision" \in DOMAIN kwargs
       \/ Len(args) >= 2 /\ "tickrange" \in DOMAIN kwargs
    THEN Raise("TypeError", "CustomFormatter")
    ELSE Return(CustomFormatter(
                    IF Len(args) >= 1 THEN args[1] ELSE Get(kwargs, "precision", RInt(2)),
                    IF Len(args) >= 2 THEN args[2]
                    ELSE Get(kwargs, "tickrange", DefaultTickrange)))

\* PrefixSuffixFormatter(args..., prefix=None, suffix=None, kwargs...)
PrefixSuffixFormatter(args, kwargs) ==
    Return(FuncFormatter([fn |-> "PrefixSuffixFormatter.f",
                          args |-> args,
                          kwargs |-> Without(kwargs, {"prefix", "suffix"}),
                          prefix |-> Get(kwargs, "prefix", ""),
                          suffix |-> Get(kwargs, "suffix", "")]))

\* MoneyFormatter(args..., kwargs...)
MoneyFormatter(args, kwargs) ==
    IF "prefix" \in DOMAIN kwargs THEN Raise("TypeError", "prefix")
    ELSE PrefixSuffixFormatter(args, ("prefix" :> "$") @@ kwargs)

\* CoordinateFormatter(args..., cardinal=None, deg=True, kwargs...)
CoordinateFormatter(args, kwargs) ==
    Return(FuncFormatter([fn |-> "CoordinateFormatter.f",
                          args |-> args,
                          kwargs |-> Without(kwargs, {"cardinal", "deg"}),
                          cardinal |-> Get(kwargs, "cardinal", [type |-> "None"]),
                          deg |-> Get(kwargs, "deg", TRUE)]))

\* LatFormatter(args..., kwargs...)
LatFormatter(args, kwargs) ==
    IF "cardinal" \in DOMAIN kwargs THEN Raise("TypeError", "cardinal")
    ELSE CoordinateFormatter(args, ("cardinal" :> Str("SN")) @@ kwargs)

\* LonFormatter(args..., kwargs...)
LonFormatter(args, kwargs) ==
    IF "cardinal" \in DOMAIN kwargs THEN Raise("TypeError", "cardinal")
    ELSE CoordinateFormatter(args, ("cardinal" :> Str("WE")) @@ kwargs)

\* FracFormatter(number, symbol)
FracFormatter(number, symbol) ==
    Return(FuncFormatter([fn |-> "FracFormatter.f", number |-> number,
                          symbol |-> symbol]))

\* variant: the fraction is not reduced to lowest terms
Fraction_unreduced(k, m) == <<k, m>>

\* Fraction(n / number).limit_denominator() for the tick value
\* n = k * number / m: the fraction k/m in lowest terms, which is the
\* closest one of denominator at most 1000000
Fraction(k, m) ==
    LET q == Norm(k, m)
    IN  IF q[2] <= 1000000 THEN q ELSE <<q[1] \div q[2], 1>>

\* '{:d}' of an integer
IntFormat(i) == IF i < 0 THEN "-" \o IntStr(-i) ELSE IntStr(i)

\* f(n, loc) of FracFormatter, lines 617-635, for n = k * number / m
FracFormatter_f(symbol, k, m) ==
    LET frac == Fraction(k, m)
        numerator == frac[1]
        denominator == frac[2]
    IN  IF k = 0 THEN "0"
        ELSE IF denominator = 1
        THEN IF numerator = 1 THEN "$" \o symbol \o "$"
             ELSE IF numerator = -1 THEN "${-}" \o symbol \o "$"
             ELSE "$" \o IntFormat(numerator) \o symbol \o "$"
        ELSE IF numerator = 1
        THEN "$" \o symbol \o "/" \o IntFormat(denominator) \o "$"
        ELSE IF numerator = -1
        THEN "${-}" \o symbol \o "/" \o IntFormat(denominator) \o "$"
        ELSE "$" \o IntFormat(numerator) \o symbol \o "/"
                \o IntFormat(denominator) \o "$"

\* PiFormatter() and eFormatter()
PiFormatter(args, kwargs) ==
    IF args # <<>> \/ DOMAIN kwargs # {} THEN Raise("TypeError", "PiFormatter")
    ELSE FracFormatter("np.pi", "\\pi")

eFormatter(args, kwargs) ==
    IF args # <<>> \/ DOMAIN kwargs # {} THEN Raise("TypeError", "eFormatter")
    ELSE FracFormatter("np.exp(1)", "e")

\* the character '\N{DEGREE SIGN}'
DegreeSign == "<U+00B0>"

\* f(value, location) of PrefixSuffixFormatter, lines 557-560, for the
\* closure c
PrefixSuffixFormatter_f(c, value) ==
    LET func == CustomFormatter_call(c.args, c.kwargs)
    IN  IF func.exc # NoException THEN func
        ELSE LET r == CustomFormatter_f(func.ret.f.precision, func.ret.f.tickrange,
                                        value)
             IN  IF r.exc # NoException THEN r
                 ELSE Return(Str(c.prefix \o r.ret.s \o c.suffix))

\* f(value, location) of CoordinateFormatter, lines 579-593, for the
\* closure c
CoordinateFormatter_f(c, value) ==
    LET suffix0 == IF c.deg THEN DegreeSign ELSE ""
        isstr == c.cardinal.type = "str"
        below == isstr /\ RLt(Signed(value), Zero)
        above == isstr /\ RGt(Signed(value), Zero)
        value1 == IF below THEN Float(~value.neg, value.mag) ELSE value
        suffix == suffix0 \o (IF below THEN SubSeq(c.cardinal.s, 1, 1)
                              ELSE IF above THEN SubSeq(c.cardinal.s, 2, 2)
                              ELSE "")
        func == CustomFormatter_call(c.args, c.kwargs)
    IN  IF func.exc # NoException THEN func
        ELSE LET r == CustomFormatter_f(func.ret.f.precision, func.ret.f.tickrange,
                                        value1)
             IN  IF r.exc # NoException THEN r
                 ELSE Return(Str(r.ret.s \o suffix))

\* FuncFormatter.__call__(value, location): the function the formatter wraps,
\* applied to a float
FuncFormatter_apply(formatter, value) ==
    CASE formatter.f.fn = "CustomFormatter.f" ->
            CustomFormatter_f(formatter.f.precision, formatter.f.tickrange, value)
      [] formatter.f.fn = "PrefixSuffixFormatter.f" ->
            PrefixSuffixFormatter_f(formatter.f, value)
      [] formatter.f.fn = "CoordinateFormatter.f" ->
            CoordinateFormatter_f(formatter.f, value)

\* formatters[name] applied to args and kwargs
CallFormatter(name, args, kwargs) ==
    LET entry == DictGet(formatters, name)
    IN  CASE entry = "MoneyFormatter" -> MoneyFormatter(args, kwargs)
          [] entry = "PiFormatter" -> PiFormatter(args, kwargs)
          [] entry = "eFormatter" -> eFormatter(args, kwargs)
          [] entry = "CoordinateFormatter" -> CoordinateFormatter(args, kwargs)
          [] entry = "LatFormatter" -> LatFormatter(args, kwargs)
          [] entry = "LonFormatter" -> LonFormatter(args, kwargs)
          [] OTHER -> CallAttr(mticker, entry, args, kwargs)

\* variant: an unknown name falls through to the table lookup (KeyError)
FormatterResult_nocheck(formatter, args, time, tickrange, kwargs) ==
    IF formatter.type = "Formatter" THEN Return(formatter)
    ELSE IF formatter.type = "None"
    THEN IF time THEN CallAttr(mdates, "AutoDateFormatter", args, kwargs)
         ELSE CustomFormatter_call(args, ("tickrange" :> tickrange) @@ kwargs)
    ELSE IF formatter.type = "function"
    THEN CallAttr(mticker, "FuncFormatter", <<formatter>> \o args, kwargs)
    ELSE IF formatter.type = "str"
    THEN IF Contains(formatter.s, "{x}")
         THEN CallAttr(mticker, "StrMethodFormatter", <<formatter>> \o args, kwargs)
         ELSE IF Contains(formatter.s, "%")
         THEN IF time
              THEN CallAttr(mdates, "DateFormatter", <<formatter>> \o args, kwargs)
              ELSE CallAttr(mticker, "FormatStrFormatter", <<formatter>> \o args, kwargs)
         ELSE IF ~DictHas(formatters, formatter.s)
         THEN Raise("KeyError", formatter.s)
         ELSE CallFormatter(formatter.s, args, kwargs)
    ELSE IF isscalar(formatter)
    THEN CustomFormatter_call(<<formatter.x>> \o args, ("tickrange" :> tickrange) @@ kwargs)
    ELSE CallAttr(mticker, "IndexFormatter", <<formatter>>, NoKw)

\* variant: '%' is looked for before '{x}'
FormatterResult_percentfirst(formatter, args, time, tickrange, kwargs) ==
    IF formatter.type = "Formatter" THEN Return(formatter)
    ELSE IF formatter.type = "None"
    THEN IF time THEN CallAttr(mdates, "AutoDateFormatter", args, kwargs)
         ELSE IF "tickrange" \in DOMAIN kwargs THEN Raise("TypeError", "tickrange")
         ELSE CustomFormatter_call(args, ("tickrange" :> tickrange) @@ kwargs)
    ELSE IF formatter.type = "function"
    THEN CallAttr(mticker, "FuncFormatter", <<formatter>> \o args, kwargs)
    ELSE IF formatter.type = "str"
    THEN IF Contains(formatter.s, "%")
         THEN IF time
              THEN CallAttr(mdates, "DateFormatter", <<formatter>> \o args, kwargs)
              ELSE CallAttr(mticker, "FormatStrFormatter", <<formatter>> \o args, kwargs)
         ELSE IF Contains(formatter.s, "{x}")
         THEN CallAttr(mticker, "StrMethodFormatter", <<formatter>> \o args, kwargs)
         ELSE IF ~DictHas(formatters, formatter.s)
         THEN Raise("ValueError", UnknownMessage("formatter", formatter.s, formatters))
         ELSE CallFormatter(formatter.s, args,
                            IF formatter.s \in {"deg", "deglon", "deglat", "lon", "lat"}
                            THEN ("deg" :> Contains(formatter.s, "deg")) @@ kwargs
                            ELSE kwargs)
    ELSE IF isscalar(formatter)
    THEN IF "tickrange" \in DOMAIN kwargs THEN Raise("TypeError", "tickrange")
         ELSE CustomFormatter_call(<<formatter.x>> \o args,
                                   ("tickrange" :> tickrange) @@ kwargs)
    ELSE CallAttr(mticker, "IndexFormatter", <<formatter>>, NoKw)

\* Formatter(formatter, args..., time=False, tickrange=None, kwargs...)
FormatterResult(formatter, args, time, tickrange, kwargs) ==
    IF formatter.type = "Formatter" THEN Return(formatter)
    ELSE IF formatter.type = "None"
    THEN IF time THEN CallAttr(mdates, "AutoDateFormatter", args, kwargs)
         ELSE IF "tickrange" \in DOMAIN kwargs THEN Raise("TypeError", "tickrange")
         ELSE CustomFormatter_call(args, ("tickrange" :> tickrange) @@ kwargs)
    ELSE IF formatter.type = "function"
    THEN CallAttr(mticker, "FuncFormatter", <<formatter>> \o args, kwargs)
    ELSE IF formatter.type = "str"
    THEN IF Contains(formatter.s, "{x}")
         THEN CallAttr(mticker, "StrMethodFormatter", <<formatter>> \o args, kwargs)
         ELSE IF Contains(formatter.s, "%")
         THEN IF time
              THEN CallAttr(mdates, "DateFormatter", <<formatter>> \o args, kwargs)
              ELSE CallAttr(mticker, "FormatStrFormatter", <<formatter>> \o args, kwargs)
         ELSE IF ~DictHas(formatters, formatter.s)
         THEN Raise("ValueError", UnknownMessage("formatter", formatter.s, formatters))
         ELSE CallFormatter(formatter.s, args,
                            IF formatter.s \in {"deg", "deglon", "deglat", "lon", "lat"}
                            THEN ("deg" :> Contains(formatter.s, "deg")) @@ kwargs
                            ELSE kwargs)
    ELSE IF isscalar(formatter)
    THEN IF "tickrange" \in DOMAIN kwargs THEN Raise("TypeError", "tickrange")
         ELSE CustomFormatter_call(<<formatter.x>> \o args,
                                   ("tickrange" :> tickrange) @@ kwargs)
    ELSE CallAttr(mticker, "IndexFormatter", <<formatter>>, NoKw)

(***************************************************************************)
(* Inputs of the locator and formatter operations.                         *)
(***************************************************************************)
SeqRange(seq) == {seq[i] : i \in DOMAIN seq}

LocatorInstances ==
    {[type |-> "Locator", cls |-> "MaxNLocator", id |-> 1],
     [type |-> "Locator", cls |-> "NullLocator", id |-> 2]}
LocatorStrings ==
    SeqRange(DictKeys(locators)) \cup {"logminor", "bogus", "", "Log", "deg"}
LocatorInputs ==
    LocatorInstances
        \cup {[type |-> "None"]}
        \cup {Str(n) : n \in LocatorStrings}
        \cup {[type |-> "scalar", x |-> r] : r \in {Rat(1, 2), RInt(2)}}
        \cup {[type |-> "list", items |-> l] :
                l \in {<<RInt(3), RInt(1), RInt(2)>>, <<RInt(1), RInt(2)>>,
                       <<RInt(2), Rat(1, 2), RInt(2)>>}}
        \cup {[type |-> "tuple", items |-> <<Str(n), [type |-> "scalar", x |-> RInt(k)]>>] :
                n \in {"day", "linear", "maxn"}, k \in {5, 21}}
LocatorArgs == {<<>>, <<RInt(5)>>}
LocatorKwargs == {NoKw, [nbins |-> 4]}

FormatterInstances == {[type |-> "Formatter", cls |-> "ScalarFormatter", id |-> 1]}
FormatterStrings ==
    SeqRange(DictKeys(formatters))
        \cup {"bogus", "", "{x}", "x={x}!", "{x:.1f}", "%.1f", "{x}%", "degrees",
               "logminor", "day"}
FormatterInputs ==
    FormatterInstances
        \cup {[type |-> "None"], [type |-> "function", name |-> "g"]}
        \cup {Str(n) : n \in FormatterStrings}
        \cup {[type |-> "scalar", x |-> RInt(p)] : p \in 0..MaxPrecision}
        \cup {[type |-> "list", items |-> <<"a", "b", "c">>]}
FormatterKwargs == {NoKw, [precision |-> RInt(1)]}
Tickranges ==
    {[type |-> "None"], DefaultTickrange,
     [type |-> "scalar", x |-> One], [type |-> "scalar", x |-> RNeg(One)],
     [type |-> "list", items |-> <<Zero, RInt(2)>>],
     [type |-> "list", items |-> <<Rat(1, 1000), RInt(2)>>]}
Precisions == {RInt(p) : p \in 0..MaxPrecision}

Magnitudes ==
    {Zero, Rat(1, 1000000), Rat(1, 1000), Rat(1, 8), Rat(1, 4), Rat(1, 2),
     Rat(999, 1000), One, Rat(3, 2), RInt(2), Rat(2001, 1000), Rat(2003, 1000),
     Rat(5, 2), RInt(10), Rat(201, 2), RInt(100)}
Floats == {Float(n, m) : n \in BOOLEAN, m \in Magnitudes}

(***************************************************************************)
(* Operations on locators and formatters.                                  *)
(***************************************************************************)
scalevars == <<registry, scaleobj, xf, a0, a, trail, arg>>

\* the host makes one call at a time and looks at what it gave
HostReady == call = NoCall

Locator(locator, args, minor, time, kwargs) ==
    LET r == LocatorResult(locator, args, minor, time, kwargs)
    IN  /\ HostReady
        /\ call' = [op |-> "Locator", locator |-> locator, args |-> args,
                    minor |-> minor, time |-> time, kwargs |-> kwargs]
        /\ ret' = r.ret
        /\ exc' = r.exc
        /\ UNCHANGED <<scalevars, fmt>>

\* Formatter(...); the host keeps the formatter it is given
Formatter(formatter, args, time, tickrange, kwargs) ==
    LET r == FormatterResult(formatter, args, time, tickrange, kwargs)
    IN  /\ HostReady
        /\ call' = [op |-> "Formatter", formatter |-> formatter, args |-> args,
                    time |-> time, tickrange |-> tickrange, kwargs |-> kwargs]
        /\ ret' = r.ret
        /\ exc' = r.exc
        /\ fmt' = r.ret
        /\ UNCHANGED scalevars

\* CustomFormatter(precision, tickrange), called directly
NewCustomFormatter(precision, tickrange) ==
    LET r == CustomFormatter_call(<<precision, tickrange>>, NoKw)
    IN  /\ HostReady
        /\ call' = [op |-> "CustomFormatter", precision |-> precision,
                    tickrange |-> tickrange]
        /\ ret' = r.ret
        /\ exc' = r.exc
        /\ fmt' = r.ret
        /\ UNCHANGED scalevars

\* FuncFormatter.__call__(value, location) on a formatter made by CustomFormatter
FuncFormatter_call(value) ==
    /\ "f" \in DOMAIN fmt
    /\ fmt.f.fn = "CustomFormatter.f"
    /\ LET r == CustomFormatter_f(fmt.f.precision, fmt.f.tickrange, value)
       IN  /\ call' = [op |-> "f", value |-> value]
           /\ ret' = r.ret
           /\ exc' = r.exc
    /\ UNCHANGED <<scalevars, fmt>>

\* names, positional and keyword arguments of the formatter constructors the
\* host calls directly
ConstructorNames == {"$", "deg", "lat", "lon", "deglat"}
ConstructorArgs ==
    {<<>>, <<RInt(1), [type |-> "list", items |-> <<Zero, RInt(2)>>]>>}
ConstructorKwargs ==
    {NoKw, [tickrange |-> [type |-> "list", items |-> <<RNeg(One), One>>]],
     [tickrange |-> [type |-> "scalar", x |-> RInt(2)], suffix |-> "m"]}

\* formatters[name](args..., kwargs...), called directly; the host keeps the
\* formatter
NewFormatter(name, args, kwargs) ==
    LET r == CallFormatter(name, args, kwargs)
    IN  /\ HostReady
        /\ call' = [op |-> "formatters", name |-> name, args |-> args,
                    kwargs |-> kwargs]
        /\ ret' = r.ret
        /\ exc' = r.exc
        /\ fmt' = r.ret
        /\ UNCHANGED scalevars

\* FuncFormatter.__call__(value, location) on a formatter made by
\* PrefixSuffixFormatter or CoordinateFormatter
ClosureFormatter_call(value) ==
    /\ "f" \in DOMAIN fmt
    /\ fmt.f.fn \in {"PrefixSuffixFormatter.f", "CoordinateFormatter.f"}
    /\ LET r == FuncFormatter_apply(fmt, value)
       IN  /\ call' = [op |-> "g", value |-> value]
           /\ ret' = r.ret
           /\ exc' = r.exc
    /\ UNCHANGED <<scalevars, fmt>>

\* multiples k/m of the unit handed to a fraction formatter
MaxMultiple == 4

\* FuncFormatter.__call__(n, loc) on a formatter made by FracFormatter, for
\* the tick value n = k * number / m
FracFormatter_call(k, m) ==
    /\ "f" \in DOMAIN fmt
    /\ fmt.f.fn = "FracFormatter.f"
    /\ call' = [op |-> "frac", k |-> k, m |-> m]
    /\ ret' = Str(FracFormatter_f(fmt.f.symbol, k, m))
    /\ exc' = NoException
    /\ UNCHANGED <<scalevars, fmt>>

\* the host drops what the last call gave and the formatter it holds
Discard ==
    /\ ~HostReady
    /\ call' = NoCall
    /\ ret' = NoObject
    /\ exc' = NoException
    /\ fmt' = NoObject
    /\ UNCHANGED scalevars

NextTicker ==
    \/ \E l \in LocatorInputs, args \in LocatorArgs, minor \in BOOLEAN,
          time \in BOOLEAN, kw \in LocatorKwargs : Locator(l, args, minor, time, kw)
    \/ \E f \in FormatterInputs, time \in BOOLEAN, tr \in Tickranges,
          kw \in FormatterKwargs : Formatter(f, <<>>, time, tr, kw)
    \/ \E p \in Precisions, tr \in Tickranges : NewCustomFormatter(p, tr)
    \/ \E n \in ConstructorNames, args \in ConstructorArgs, kw \in ConstructorKwargs :
          NewFormatter(n, args, kw)
    \/ \E v \in Floats : ClosureFormatter_call(v)
    \/ \E v \in Floats : FuncFormatter_call(v)
    \/ \E k \in (-MaxMultiple)..MaxMultiple, m \in 1..MaxMultiple : FracFormatter_call(k, m)
    \/ Discard

SpecTicker == Init /\ [][NextTicker]_vars

(***************************************************************************)
(* Scale(scale, kwargs...), and the module as a whole: the scales, their   *)
(* transforms, Scale, Locator and Formatter driven by one host.            *)
(***************************************************************************)
\* utils.isvector
isvector(v) == v.type \in {"list", "tuple"}

\* CutoffScaleFactory(l, u, scale=np.inf, name='cutoff') applied to args and
\* kwargs: the name returned and the registry after the call
CutoffScaleFactory_call(args, kwargs, reg) ==
    IF \/ Len(args) > 4
       \/ (DOMAIN kwargs) \ {"l", "u", "scale", "name"} # {}
       \/ Len(args) >= 1 /\ "l" \in DOMAIN kwargs
       \/ Len(args) >= 2 /\ "u" \in DOMAIN kwargs
       \/ Len(args) >= 3 /\ "scale" \in DOMAIN kwargs
       \/ Len(args) >= 4 /\ "name" \in DOMAIN kwargs
       \/ Len(args) < 1 /\ "l" \notin DOMAIN kwargs
       \/ Len(args) < 2 /\ "u" \notin DOMAIN kwargs
    THEN [ret |-> NoObject, exc |-> Raise("TypeError", "CutoffScaleFactory").exc,
          registry |-> reg]
    ELSE LET l == IF Len(args) >= 1 THEN args[1] ELSE kwargs["l"]
             u == IF Len(args) >= 2 THEN args[2] ELSE kwargs["u"]
             scale == IF Len(args) >= 3 THEN args[3] ELSE Get(kwargs, "scale", Inf)
             name == IF Len(args) >= 4 THEN args[4] ELSE Get(kwargs, "name", "cutoff")
         IN  [ret |-> Str(name), exc |-> NoException,
              registry |-> Register(reg, name,
                                [cls |-> "CutoffScale", l |-> l, u |-> u,
                                 scale |-> scale])]

\* variant: the test "and not args" is lost
ScaleResult_ignoreargs(scale, kwargs, reg) ==
    LET name == IF isvector(scale) THEN scale.items[1] ELSE scale.s
        args == IF isvector(scale) THEN Tail(scale.items) ELSE <<>>
    IN  IF name \in scales
        THEN [ret |-> Str(name), exc |-> NoException, registry |-> reg]
        ELSE IF name = "cutoff"
        THEN CutoffScaleFactory_call(args, kwargs, reg)
        ELSE [ret |-> NoObject,
              exc |-> Raise("ValueError", "Unknown scale " \o name \o ".").exc,
              registry |-> reg]

\* Scale(scale, kwargs...)
ScaleResult(scale, kwargs, reg) ==
    LET name == IF isvector(scale) THEN scale.items[1] ELSE scale.s
        args == IF isvector(scale) THEN Tail(scale.items) ELSE <<>>
    IN  IF name \in scales /\ args = <<>>
        THEN [ret |-> Str(name), exc |-> NoException, registry |-> reg]
        ELSE IF name = "cutoff"
        THEN CutoffScaleFactory_call(args, kwargs, reg)
        ELSE [ret |-> NoObject,
              exc |-> Raise("ValueError", "Unknown scale " \o name \o ".").exc,
              registry |-> reg]

ScaleInputs ==
    {Str(n) : n \in scales \cup {"cutoff", "bogus"}}
        \cup {[type |-> "tuple", items |-> <<"linear", One>>],
               [type |-> "tuple", items |-> <<"sine">>],
               [type |-> "tuple", items |-> <<"cutoff", Zero>>]}
        \cup {[type |-> "tuple", items |-> <<"cutoff", l, u>>] :
                l \in Bounds, u \in Bounds}
        \cup {[type |-> "list", items |-> <<"cutoff", Zero, One, s>>] :
                s \in ScaleFactors}
ScaleKwargs == {NoKw, [scale |-> RInt(2)]}

Scale(scale, kwargs) ==
    LET r == ScaleResult(scale, kwargs, registry)
    IN  /\ HostReady
        /\ call' = [op |-> "Scale", scale |-> scale, kwargs |-> kwargs]
        /\ ret' = r.ret
        /\ exc' = r.exc
        /\ registry' = r.registry
        /\ UNCHANGED <<scaleobj, xf, a0, a, trail, arg, fmt>>

\* the locators, formatters and tick values of the host of the whole module
ModuleLocatorInputs ==
    {[type |-> "None"], Str("log"), Str("logminor"), Str("bogus"),
     [type |-> "scalar", x |-> RInt(2)],
     [type |-> "list", items |-> <<RInt(3), RInt(1), RInt(2)>>]}
ModuleFormatterInputs ==
    {[type |-> "None"], Str("deg"), Str("bogus"), Str("{x}"),
     [type |-> "scalar", x |-> RInt(1)]}
ModuleFloats == {Float(FALSE, Zero), Float(TRUE, Rat(1, 2)), Float(FALSE, Rat(3, 2))}

\* the host drives a scale while it holds no formatter, and calls Scale,
\* Locator and Formatter while it holds no scale
NextModule ==
    \/ fmt = NoObject /\ ret = NoObject /\ Next
    \/ HostIdle /\ \E sc \in ScaleInputs, kw \in ScaleKwargs : Scale(sc, kw)
    \/ HostIdle /\ \E l \in ModuleLocatorInputs, minor \in BOOLEAN, time \in BOOLEAN :
                        Locator(l, <<>>, minor, time, NoKw)
    \/ HostIdle /\ \E f \in ModuleFormatterInputs, time \in BOOLEAN :
                        Formatter(f, <<>>, time, DefaultTickrange, NoKw)
    \/ HostIdle /\ \E tr \in Tickranges : NewCustomFormatter(RInt(1), tr)
    \/ HostIdle /\ \E v \in ModuleFloats : FuncFormatter_call(v)
    \/ HostIdle /\ Discard

SpecModule == Init /\ [][NextModule]_vars

(***************************************************************************)
(* Properties of the scales and transforms, checked under Spec.            *)
(***************************************************************************)
RoundTripDone == trail = <<"CutoffTransform", "InvertedCutoffTransform">>
InsideCutoff(x) == RLt(xf.lower, x) /\ RLt(x, xf.upper)
InverseClasses == {"InverseTransform", "InvertedInverseTransform"}

\* C1: with lower < upper, the inverted cutoff transform applied to the
\* output of the cutoff transform gives back the input, except for an
\* infinite scale factor with the input strictly between lower and upper.
C1_RoundTrip ==
    (RoundTripDone /\ RLt(xf.lower, xf.upper))
        => (a = a0 \/ (xf.scale = Inf /\ InsideCutoff(a0.v)))

\* C2 as stated: every input above upper is moved down by upper - lower,
\* whatever the scale factor.
C2_ShiftByGap ==
    (trail = <<"CutoffTransform">> /\ RLt(xf.lower, xf.upper) /\ RGt(a0.v, xf.upper))
        => a.v = RSub(a0.v, RSub(xf.upper, xf.lower))

\* C2 amended: with lower <= upper, every input above upper is moved down by
\* (upper - lower) * (1 - 1/s), which is upper - lower only for infinite s.
C2_ShiftByCompressedGap ==
    (trail = <<"CutoffTransform">> /\ RLe(xf.lower, xf.upper) /\ RGt(a0.v, xf.upper))
        => LET k == IF xf.scale = Inf THEN One
                    ELSE Rat(xf.scale[1] - xf.scale[2], xf.scale[1])
           IN  a.v = RSub(a0.v, RMul(RSub(xf.upper, xf.lower), k))

C2_Witness ==
    /\ trail = <<"CutoffTransform">>
    /\ RLt(xf.lower, xf.upper)
    /\ RGt(a0.v, xf.upper)
    /\ xf.scale = RInt(2)
    /\ a.v # RSub(a0.v, RSub(xf.upper, xf.lower))

\* C3: with lower < upper, the cutoff transform leaves every input <= lower
\* unchanged, and maps an input strictly between lower and upper to lower
\* when s is infinite and to lower + (x - lower) / s when s is finite.
C3_BelowAndInside ==
    (trail = <<"CutoffTransform">> /\ RLt(xf.lower, xf.upper))
        => /\ RLe(a0.v, xf.lower) => a = a0
           /\ InsideCutoff(a0.v)
                => a.v = IF xf.scale = Inf THEN xf.lower
                         ELSE RAdd(xf.lower, RDiv(RSub(a0.v, xf.lower), xf.scale))

C3_Witness ==
    /\ trail = <<"CutoffTransform">>
    /\ InsideCutoff(a0.v)
    /\ xf.scale = Inf
    /\ a.v = xf.lower
    /\ a # a0

\* C4 as stated: for every x # 0, positive or negative, two applications of
\* the inverse-scale transform give x back to within eps.
C4_SelfInverse ==
    (Len(trail) = 2 /\ trail[1] \in InverseClasses /\ a0.v # Zero)
        => RLe(RAbs(RSub(a.v, a0.v)), Eps)

\* C4 amended: two applications of the inverse-scale transform give x back
\* exactly for x > 0, and give eps = 0.01 for every x <= 0.
C4_SelfInverseOnPositive ==
    (Len(trail) = 2 /\ trail[1] \in InverseClasses)
        => /\ RGt(a0.v, Zero) => a = a0
           /\ RLe(a0.v, Zero) => a.v = Eps

C4_Witness ==
    /\ trail = <<"InverseTransform", "InvertedInverseTransform">>
    /\ RLt(a0.v, Zero)
    /\ a.v = Eps

\* C5: both inverse-scale transforms give 1/x for x > 0 and 1/eps for
\* x <= 0; the result is finite and strictly positive.
C5_Reciprocal ==
    (Len(trail) = 1 /\ trail[1] \in InverseClasses)
        => /\ RGt(a0.v, Zero) => RMul(a.v, a0.v) = One
           /\ RLe(a0.v, Zero) => a.v = RInt(100)
           /\ IsFinite(a.v)
           /\ RGt(a.v, Zero)

C5_Witness ==
    /\ trail = <<"InvertedInverseTransform">>
    /\ a0.v = Zero
    /\ a.v = RInt(100)

\* C6: the mercator transform masks exactly the latitudes y (degrees) with
\* y < -thresh or y > thresh.
C6_MaskOutsideThresh ==
    trail = <<"MercatorLatitudeTransform">>
        => (a.mask <=> (RLt(a0.v, RNeg(xf.thresh)) \/ RGt(a0.v, xf.thresh)))

\* C10: MercatorLatitudeScale(thresh) raises ValueError and yields no scale
\* for thresh >= 90, and otherwise yields a scale storing thresh unchanged.
C10_ThreshChecked ==
    call.op = "MercatorLatitudeScale.__init__"
        => IF RLe(RInt(90), call.thresh)
           THEN exc.type = "ValueError" /\ scaleobj = NoObject
           ELSE /\ exc = NoException
                /\ scaleobj = [cls |-> "MercatorLatitudeScale", thresh |-> call.thresh]

C10_Witness ==
    /\ call.op = "MercatorLatitudeScale.__init__"
    /\ call.thresh = RInt(90)
    /\ exc.type = "ValueError"
    /\ scaleobj = NoObject

(***************************************************************************)
(* Properties of the locators and formatters, checked under SpecTicker.    *)
(***************************************************************************)
\* value rounds to zero at p decimal places: |value| * 10^p <= 1/2
RoundsToZero(value, p) == RLe(RMul(value.mag, RInt(2 * (10 ^ p))), One)

FormattedUnbounded ==
    /\ call.op = "f"
    /\ fmt.f.tickrange = <<NegInf, Inf>>
    /\ fmt.f.precision[2] = 1

\* C7 as stated: CustomFormatter(precision=p) gives "0" for every value that
\* rounds to zero at p decimal places, small positive values included.
C7_ZeroLabel ==
    (FormattedUnbounded /\ RoundsToZero(call.value, fmt.f.precision[1]))
        => (ret = Str("0") /\ exc = NoException)

\* C7 amended: for a value that rounds to zero at p decimal places,
\* CustomFormatter(precision=p) gives "0" when the value is zero, negative
\* zero or negative, and raises RuntimeError, giving no label, when it is
\* positive.
C7_ZeroLabelUnlessPositive ==
    (FormattedUnbounded /\ RoundsToZero(call.value, fmt.f.precision[1]))
        => IF ~call.value.neg /\ call.value.mag # Zero
           THEN exc.type = "RuntimeError" /\ ret = NoObject
           ELSE ret = Str("0") /\ exc = NoException

C7_Witness ==
    /\ FormattedUnbounded
    /\ fmt.f.precision = RInt(2)
    /\ call.value = Float(FALSE, Rat(1, 1000000))
    /\ exc.type = "RuntimeError"
    /\ ret = NoObject

\* the keys of the locators table, lines 657-676, and of the formatters
\* table, lines 679-697
LocatorNames ==
    {"none", "null", "log", "maxn", "linear", "multiple", "fixed", "index",
     "symmetric", "logit", "minor", "microsecond", "second", "minute", "hour", "day",
     "weekday", "month", "year"}
FormatterNames ==
    {"none", "null", "strmethod", "formatstr", "scalar", "log", "eng", "sci", "logit",
     "percent", "$", "pi", "e", "deg", "lat", "lon", "deglat", "deglon"}

IsSorted(seq) == \A i \in 1..(Len(seq) - 1) : RLe(seq[i], seq[i + 1])
Count(seq, x) == Cardinality({i \in DOMAIN seq : seq[i] = x})
SamePositions(s1, s2) ==
    /\ Len(s1) = Len(s2)
    /\ \A i \in DOMAIN s1 : Count(s1, s1[i]) = Count(s2, s1[i])

\* C8: Locator returns a locator object unchanged; for None the automatic
\* date locator if time, else the automatic minor locator if minor, else the
\* automatic locator; for a scalar a MultipleLocator with that step; for a
\* list a FixedLocator at the sorted positions; for a name of the table an
\* instance of the class registered under it, built with the extra arguments.
C8_LocatorDispatch ==
    call.op = "Locator"
        => LET l == call.locator
           IN  CASE l.type = "Locator" -> ret = l /\ exc = NoException
                 [] l.type = "None" ->
                      /\ exc = NoException
                      /\ ret # NoObject
                      /\ ret.cls = IF call.time THEN "AutoDateLocator"
                                   ELSE IF call.minor THEN "AutoMinorLocator"
                                   ELSE "AutoLocator"
                 [] l.type = "scalar" ->
                      /\ exc = NoException
                      /\ ret.cls = "MultipleLocator"
                      /\ ret.args[1] = l.x
                 [] l.type = "list" ->
                      /\ exc = NoException
                      /\ ret.cls = "FixedLocator"
                      /\ IsSorted(ret.args[1])
                      /\ SamePositions(ret.args[1], l.items)
                 [] l.type = "str" /\ l.s \in LocatorNames ->
                      /\ exc = NoException
                      /\ ret.cls = DictGet(locators, l.s)
                      /\ ret.args = call.args
                      /\ ret.kwargs = call.kwargs
                 [] OTHER -> TRUE

\* C9: Locator given a string that is no locator name, and Formatter given
\* a string without '{x}' and without '%' that is no formatter name, raise
\* a ValueError whose message holds that string and every key of the table,
\* and return nothing.
C9_UnknownNameRaises ==
    /\ (/\ call.op = "Locator"
        /\ call.locator.type = "str"
        /\ call.locator.s \notin LocatorNames \cup {"logminor"})
            => /\ exc.type = "ValueError"
               /\ Contains(exc.msg, call.locator.s)
               /\ \A k \in LocatorNames : Contains(exc.msg, k)
               /\ ret = NoObject
    /\ (/\ call.op = "Formatter"
        /\ call.formatter.type = "str"
        /\ ~Contains(call.formatter.s, "{x}")
        /\ ~Contains(call.formatter.s, "%")
        /\ call.formatter.s \notin FormatterNames)
            => /\ exc.type = "ValueError"
               /\ Contains(exc.msg, call.formatter.s)
               /\ \A k \in FormatterNames : Contains(exc.msg, k)
               /\ ret = NoObject

C9_Witness ==
    /\ call.op = "Locator"
    /\ call.locator = Str("bogus")
    /\ exc.type = "ValueError"
    /\ Contains(exc.msg, "\"bogus\"")
    /\ ret = NoObject

(***************************************************************************)
(* inverted() of the transforms.                                           *)
(***************************************************************************)
Opposite(cls) ==
    CASE cls = "CutoffTransform" -> "InvertedCutoffTransform"
      [] cls = "InvertedCutoffTransform" -> "CutoffTransform"
      [] cls = "MercatorLatitudeTransform" -> "InvertedMercatorLatitudeTransform"
      [] cls = "InvertedMercatorLatitudeTransform" -> "MercatorLatitudeTransform"
      [] cls = "SineLatitudeTransform" -> "InvertedSineLatitudeTransform"
      [] cls = "InvertedSineLatitudeTransform" -> "SineLatitudeTransform"
      [] cls = "InverseTransform" -> "InvertedInverseTransform"
      [] cls = "InvertedInverseTransform" -> "InverseTransform"

\* C11: for every transform T of every scale, T.inverted() returns without
\* error the opposite-direction transform of the same scale with the same
\* parameters.
C11_InvertedOpposite ==
    call.op = "inverted"
        => /\ exc = NoException
           /\ xf = [call.self EXCEPT !.cls = Opposite(call.self.cls)]

(***************************************************************************)
(* The registry of scale classes.                                          *)
(***************************************************************************)
\* C12 as stated: no operation modifies shared state, so the registered
\* scale names and the class each resolves to stay as they were right after
\* the module was imported.
C12_NoSharedMutation == registry = ImportedRegistry

\* C12 amended: the registry is modified only by CutoffScaleFactory, called
\* directly or through Scale with a 'cutoff' vector, and only at the name
\* 'cutoff', which it binds to the new CutoffScale class; every other name
\* keeps its class and every other operation leaves the registry as it is.
C12_OnlyCutoffRebound ==
    [][/\ \A n \in ScaleNames \ {"cutoff"} : registry'[n] = registry[n]
       /\ registry'["cutoff"] # registry["cutoff"]
            => /\ call'.op \in {"CutoffScaleFactory", "Scale"}
               /\ exc' = NoException
               /\ registry'["cutoff"].cls = "CutoffScale"]_vars

C12_Witness ==
    /\ call.op = "Scale"
    /\ isvector(call.scale)
    /\ call.scale.items[1] = "cutoff"
    /\ ret = Str("cutoff")
    /\ registry["cutoff"] = [cls |-> "CutoffScale", l |-> Zero, u |-> One,
                             scale |-> RInt(2)]
    /\ \A n \in scales : registry[n] = ImportedRegistry[n]

(***************************************************************************)
(* The formatter built by CustomFormatter.                                 *)
(***************************************************************************)
Formatted == call.op = "f" /\ fmt.f.precision[2] = 1

\* value + |value|/1000 < lo or value - |value|/1000 > hi, over integers
Outside(value, lo, hi) ==
    LET x == Signed(value)
        eps == RDiv(value.mag, RInt(1000))
    IN  RLt(RAdd(x, eps), lo) \/ RLt(hi, RSub(x, eps))

AtBound(value, tickrange) ==
    Signed(value) = tickrange[1] \/ Signed(value) = tickrange[2]

\* C13 as stated, its consequence: a value equal to either bound of the
\* tickrange is always labelled.
C13_BoundLabelled ==
    (Formatted /\ AtBound(call.value, fmt.f.tickrange))
        => (exc = NoException /\ ret # Str(""))

\* C13 amended: the formatter returns the empty string exactly when
\* value + |value|/1000 < tickrange[0] or value - |value|/1000 > tickrange[1];
\* a value equal to a bound of a range with tickrange[0] <= tickrange[1] is
\* never suppressed; tickrange None means no bound, a scalar t the range
\* [-t, t], and a negative scalar suppresses every label.
C13_RangeCheck ==
    /\ call.op = "CustomFormatter"
        => LET t == call.tickrange
           IN  fmt.f.tickrange =
                  CASE t.type = "None" -> <<NegInf, Inf>>
                    [] t.type = "scalar" -> <<RNeg(t.x), t.x>>
                    [] t.type = "list" -> t.items
    /\ Formatted
        => LET lo == fmt.f.tickrange[1]
               hi == fmt.f.tickrange[2]
           IN  /\ ret = Str("") <=> Outside(call.value, lo, hi)
               /\ (RLe(lo, hi) /\ AtBound(call.value, fmt.f.tickrange))
                    => ret # Str("")
               /\ RLt(hi, lo) => ret = Str("")

C13_Witness ==
    /\ Formatted
    /\ fmt.f.tickrange = <<Zero, RInt(2)>>
    /\ call.value = Float(FALSE, Rat(2003, 1000))
    /\ ret = Str("")

Labelled == Formatted /\ exc = NoException /\ ret # Str("")

StartsWith(s, prefix) == Len(s) >= Len(prefix) /\ SubSeq(s, 1, Len(prefix)) = prefix

\* C14: a non-empty string returned by the formatter is never "-0" and has
\* no ASCII hyphen; a value that is zero, negative zero, or negative and
\* rounding to zero gives "0", and every other negative value gives a string
\* that starts with the Unicode minus sign.
C14_NoHyphen ==
    Labelled
        => /\ ret.s # "-0"
           /\ ~Contains(ret.s, "-")
           /\ (call.value.neg \/ call.value.mag = Zero)
                => IF RoundsToZero(call.value, fmt.f.precision[1])
                   THEN ret.s = "0"
                   ELSE /\ StartsWith(ret.s, UnicodeMinus)
                        /\ Len(ret.s) > Len(UnicodeMinus)

C14_Witness ==
    /\ Labelled
    /\ call.value = Float(TRUE, Rat(3, 2))
    /\ fmt.f.precision = RInt(1)
    /\ ret = Str(UnicodeMinus \o "1.5")

\* reading a label back: the part after the sign, the place of the point
\* (0 if there is none), the digits after it, and the number the digits spell
Unsigned(s) ==
    IF StartsWith(s, UnicodeMinus) THEN SubSeq(s, Len(UnicodeMinus) + 1, Len(s)) ELSE s

PointAt(s) ==
    IF Contains(s, ".") THEN CHOOSE i \in 1..Len(s) : SubSeq(s, i, i) = "." ELSE 0

FracLen(s) == IF PointAt(s) = 0 THEN 0 ELSE Len(s) - PointAt(s)

IsDigit(ch) == \E d \in 0..9 : Digit(d) = ch

DigitValue(ch) == CHOOSE d \in 0..9 : Digit(d) = ch

RECURSIVE DigitsValue(_)
DigitsValue(s) ==
    IF Len(s) = 0 THEN 0
    ELSE IF SubSeq(s, Len(s), Len(s)) = "." THEN DigitsValue(SubSeq(s, 1, Len(s) - 1))
    ELSE 10 * DigitsValue(SubSeq(s, 1, Len(s) - 1))
            + DigitValue(SubSeq(s, Len(s), Len(s)))

WellFormed(s) ==
    /\ Len(s) > 0
    /\ \A i \in 1..Len(s) : IsDigit(SubSeq(s, i, i)) \/ i = PointAt(s)
    /\ PointAt(s) # 1

\* C15: for an in-range value and precision p >= 0 the string returned is
\* the fixed-point rendering at p decimals without the trailing zeros of the
\* fraction and without a trailing point: at most p digits after the point,
\* never ending in '.' or in a fractional '0', spelling the value rounded to
\* p decimals, integer digits kept.
C15_TrimmedFixedPoint ==
    Labelled
        => LET p == fmt.f.precision[1]
               u == Unsigned(ret.s)
               last == SubSeq(u, Len(u), Len(u))
           IN  /\ WellFormed(u)
               /\ FracLen(u) <= p
               /\ last # "."
               /\ PointAt(u) # 0 => last # "0"
               /\ DigitsValue(u) * (10 ^ (p - FracLen(u)))
                    = RoundScaled(call.value.mag, p)

C15_Witness ==
    /\ Labelled
    /\ fmt.f.precision = RInt(2)
    /\ call.value = Float(FALSE, RInt(100))
    /\ ret = Str("100")

(***************************************************************************)
(* The formatter built by FracFormatter.                                   *)
(***************************************************************************)
\* C16: FracFormatter(unit, sym) reduces value/unit to n/d in lowest terms
\* with d > 0 and renders 0 as "0", 1 as "$sym$", -1 as "${-}sym$", another
\* integer n as "$n sym$", 1/d as "$sym/d$", -1/d as "${-}sym/d$" and any
\* other n/d as "$n sym/d$".
C16_FractionLabel ==
    call.op = "frac"
        => LET g == Gcd(Abs(call.k), call.m)
               n == call.k \div g
               d == call.m \div g
               sym == fmt.f.symbol
               minus == IF n < 0 THEN "-" ELSE ""
               ns == minus \o IntStr(Abs(n))
               ds == IntStr(d)
           IN  ret.s = CASE n = 0 -> "0"
                         [] n = 1 /\ d = 1 -> "$" \o sym \o "$"
                         [] n = -1 /\ d = 1 -> "${-}" \o sym \o "$"
                         [] Abs(n) > 1 /\ d = 1 -> "$" \o ns \o sym \o "$"
                         [] n = 1 /\ d > 1 -> "$" \o sym \o "/" \o ds \o "$"
                         [] n = -1 /\ d > 1 -> "${-}" \o sym \o "/" \o ds \o "$"
                         [] Abs(n) > 1 /\ d > 1 ->
                                "$" \o ns \o sym \o "/" \o ds \o "$"

\* PiFormatter at 2*pi (given as 4*pi/2) gives "$2\pi$"
C16_Witness ==
    /\ call = [op |-> "frac", k |-> 4, m |-> 2]
    /\ fmt.f.number = "np.pi"
    /\ ret = Str("$2\\pi$")

(***************************************************************************)
(* Formatter.                                                              *)
(***************************************************************************)
\* what the formatters table of lines 678-698 holds under each name; a name
\* written twice keeps the value written last
RegisteredFormatter(name) ==
    CASE name \in {"none", "null"} -> "NullFormatter"
      [] name = "strmethod" -> "StrMethodFormatter"
      [] name = "formatstr" -> "FormatStrFormatter"
      [] name = "scalar" -> "ScalarFormatter"
      [] name \in {"log", "sci"} -> "LogFormatterSciNotation"
      [] name = "logit" -> "LogitFormatter"
      [] name = "eng" -> "EngFormatter"
      [] name = "percent" -> "PercentFormatter"
      [] name = "$" -> "MoneyFormatter"
      [] name = "pi" -> "PiFormatter"
      [] name = "e" -> "eFormatter"
      [] name = "deg" -> "CoordinateFormatter"
      [] name \in {"lat", "deglat"} -> "LatFormatter"
      [] name \in {"lon", "deglon"} -> "LonFormatter"

\* the formatter registered under a name, built with the keyword arguments
IsRegisteredFormatter(obj, name, kwargs) ==
    LET c == RegisteredFormatter(name)
        deg == Contains(name, "deg")
    IN  CASE c = "MoneyFormatter" ->
                /\ obj.cls = "FuncFormatter"
                /\ obj.f.fn = "PrefixSuffixFormatter.f"
                /\ obj.f.prefix = "$"
                /\ obj.f.kwargs = kwargs
          [] c = "PiFormatter" ->
                obj.cls = "FuncFormatter" /\ obj.f.fn = "FracFormatter.f"
                    /\ obj.f.symbol = "\\pi"
          [] c = "eFormatter" ->
                obj.cls = "FuncFormatter" /\ obj.f.fn = "FracFormatter.f"
                    /\ obj.f.symbol = "e"
          [] c \in {"CoordinateFormatter", "LatFormatter", "LonFormatter"} ->
                /\ obj.cls = "FuncFormatter"
                /\ obj.f.fn = "CoordinateFormatter.f"
                /\ obj.f.deg = deg
                /\ obj.f.cardinal = CASE c = "LatFormatter" -> Str("SN")
                                       [] c = "LonFormatter" -> Str("WE")
                                       [] OTHER -> [type |-> "None"]
                /\ obj.f.kwargs = kwargs
          [] OTHER -> obj.cls = c /\ obj.args = <<>> /\ obj.kwargs = kwargs

C18_TupleLocator ==
    (/\ call.op = "Locator"
     /\ call.locator.type = "tuple"
     /\ call.locator.items[1].s \in LocatorNames)
        => /\ exc = NoException
           /\ ret.cls = DictGet(locators, call.locator.items[1].s)
           /\ ret.args = <<call.locator.items[2].x>> \o call.args

(***************************************************************************)
(* The inverted sine transform, and what a transform call leaves alone.    *)
(***************************************************************************)
InvertedSineApplied ==
    call.op = "transform" /\ call.self.cls = "InvertedSineLatitudeTransform"

\* C19: InvertedSineLatitudeTransform.transform_non_affine treats an input
\* above 1 as 1 and one below -1 as -1, so the result lies in [-90, 90]
\* degrees and is never masked; an input within [-1, 1] is not altered by
\* the clamp (the sine of the result is the input).
C19_Clamped ==
    InvertedSineApplied
        => LET x == call.a.v
           IN  /\ exc = NoException
               /\ ~a.mask
               /\ RLe(RInt(-90), a.v) /\ RLe(a.v, RInt(90))
               /\ RGt(x, One) => a.v = RInt(90)
               /\ RLt(x, RInt(-1)) => a.v = RInt(-90)
               /\ (RLe(RInt(-1), x) /\ RLe(x, One)) => np_sin(deg2rad(a.v)) = x

C19_Witness ==
    /\ InvertedSineApplied
    /\ call.a = Plain(Rat(3, 2))
    /\ a = Plain(RInt(90))

\* the parameters a transform of the scale is constructed with
ConstructedWith(t, sc) ==
    CASE sc.cls = "CutoffScale" ->
            /\ t.cls \in {"CutoffTransform", "InvertedCutoffTransform"}
            /\ t.lower = sc.l /\ t.upper = sc.u /\ t.scale = sc.scale
      [] sc.cls = "MercatorLatitudeScale" ->
            /\ t.cls \in {"MercatorLatitudeTransform",
                           "InvertedMercatorLatitudeTransform"}
            /\ t.thresh = sc.thresh
      [] sc.cls = "InverseScale" ->
            /\ t.cls \in {"InverseTransform", "InvertedInverseTransform"}
            /\ t.minpos = sc.minpos
      [] sc.cls = "SineLatitudeScale" ->
            t \in {[cls |-> "SineLatitudeTransform"],
                   [cls |-> "InvertedSineLatitudeTransform"]}

\* C20: after a transform call the array passed in holds the values it held
\* before the call, and the parameters of the instance (lower, upper, scale
\* factor, thresh, minpos) are those given at construction.
C20_InputAndParametersKept ==
    /\ call.op = "transform" => (arg = call.a /\ xf = call.self)
    /\ xf # NoObject => ConstructedWith(xf, scaleobj)

C20_Witness ==
    /\ InvertedSineApplied
    /\ call.a = Plain(Rat(-3, 2))
    /\ arg = Plain(Rat(-3, 2))
    /\ a = Plain(RInt(-90))
    /\ ConstructedWith(xf, scaleobj)

(***************************************************************************)
(* Scale.                                                                  *)
(***************************************************************************)
ScaleName == IF isvector(call.scale) THEN call.scale.items[1] ELSE call.scale.s
ScaleArgs == IF isvector(call.scale) THEN Tail(call.scale.items) ELSE <<>>

Named == ScaleName \in scales /\ ScaleArgs = <<>>

\* the parameters of the cutoff scale when the call gives l, u and at most
\* one scale factor
CutoffGiven ==
    /\ ScaleName = "cutoff"
    /\ Len(ScaleArgs) \in {2, 3}
    /\ ~(Len(ScaleArgs) = 3 /\ "scale" \in DOMAIN call.kwargs)

CutoffRegistered ==
    /\ exc = NoException
    /\ ret = Str("cutoff")
    /\ registry["cutoff"] =
          [cls |-> "CutoffScale", l |-> ScaleArgs[1], u |-> ScaleArgs[2],
           scale |-> IF Len(ScaleArgs) = 3 THEN ScaleArgs[3]
                     ELSE IF "scale" \in DOMAIN call.kwargs THEN call.kwargs.scale
                     ELSE Inf]

C22_Monotone ==
    (/\ trail = <<"CutoffTransform">>
     /\ RLt(scaleobj.l, scaleobj.u)
     /\ RLe(One, scaleobj.scale))
        => \A y \in Halves :
              LET ty == CutoffTransform_transform(scaleobj.l, scaleobj.u,
                                                 scaleobj.scale, y)
              IN  /\ RLe(a0.v, y) => RLe(a.v, ty)
                  /\ RLe(y, a0.v) => RLe(ty, a.v)

(***************************************************************************)
(* limit_range_for_scale.                                                  *)
(***************************************************************************)
\* C23: for a requested range vmin <= vmax, limit_range_for_scale of the
\* mercator scale (bound thresh) and of the sine scale (bound 90) returns
\* (lo, hi) with -bound <= lo <= hi <= bound, also when the whole range lies
\* above bound or below -bound.
C23_LimitsWithinBound ==
    (/\ call.op = "limit_range_for_scale"
     /\ scaleobj.cls \in {"MercatorLatitudeScale", "SineLatitudeScale"})
        => LET bound == IF scaleobj.cls = "SineLatitudeScale" THEN RInt(90)
                        ELSE scaleobj.thresh
               lo == ret.items[1]
               hi == ret.items[2]
           IN  RLe(RNeg(bound), lo) /\ RLe(lo, hi) /\ RLe(hi, bound)

(***************************************************************************)
(* Formatters built on CustomFormatter.                                    *)
(***************************************************************************)
\* the tickrange the closure of the formatter hands to CustomFormatter
ClosureTickrange(formatter) ==
    CustomFormatter_call(formatter.f.args, formatter.f.kwargs).ret.f.tickrange

HasTickrange(formatter) ==
    CustomFormatter_call(formatter.f.args, formatter.f.kwargs).exc = NoException

\* C24: for a formatter built by PrefixSuffixFormatter, MoneyFormatter,
\* CoordinateFormatter, LatFormatter or LonFormatter with a tickrange, a
\* value outside that range yields the empty string (no prefix, suffix,
\* degree sign or cardinal letter), the range being tested against the signed
\* value passed in.
C24_SuppressedIsEmpty ==
    (/\ call.op = "g"
     /\ HasTickrange(fmt)
     /\ Outside(call.value, ClosureTickrange(fmt)[1], ClosureTickrange(fmt)[2]))
        => (exc = NoException /\ ret = Str(""))

(***************************************************************************)
(* The names Locator accepts and the names its error message lists.        *)
(***************************************************************************)
\* name is one of the options listed in the message of the ValueError
Listed(name) ==
    LET msg == UnknownMessage("locator", "?", locators)
    IN  Contains(msg, " " \o name \o ",") \/ Contains(msg, " " \o name \o ".")

\* C25: the strings Locator accepts as a name without raising are the
\* option names listed in the message of its ValueError: no accepted name
\* is missing from the list and no listed name is rejected.
C25_AcceptedAreListed ==
    (call.op = "Locator" /\ call.locator.type = "str")
        => (exc = NoException <=> Listed(call.locator.s))

(***************************************************************************)
(* The tickrange given to Formatter.                                       *)
(***************************************************************************)
BuiltOnCustomFormatter ==
    /\ call.op = "Formatter"
    /\ exc = NoException
    /\ \/ call.formatter.type = "None" /\ ~call.time
       \/ call.formatter.type = "scalar"
       \/ /\ call.formatter.type = "str"
          /\ call.formatter.s \in {"$", "deg", "lat", "lon", "deglat", "deglon"}

\* C26: a tickrange passed to Formatter is applied by every resulting
\* formatter built on CustomFormatter (input None, a scalar precision, the
\* names '$', 'deg', 'lat', 'lon', 'deglat', 'deglon'): a value outside the
\* tickrange gets a suppressed label.
C26_TickrangeApplied ==
    BuiltOnCustomFormatter
        => LET tr == NormalTickrange(call.tickrange)
           IN  \A v \in Floats :
                  Outside(v, tr[1], tr[2])
                      => FuncFormatter_apply(fmt, v) = Return(Str(""))

====
